---- MODULE Spec2Model ----
(***************************************************************************)
(* Model of bot.py: the permission document (json_permissions), its        *)
(* backing file, the docker backend and the command handlers of the bot.   *)
(* A handler runs atomically between two of its awaits; a handler that is  *)
(* suspended at an await sits in tasks until the event loop resumes it.    *)
(* Each step overwrites the observation variables (sent, audit, calls,     *)
(* error) with what that step sent, logged, called and raised.             *)
(***************************************************************************)
EXTENDS Integers, Sequences, FiniteSets, TLC

VARIABLES proc, file, fileErr, json_permissions, containers, tasks,
          inv, sent, audit, calls, error

vars == <<proc, file, fileErr, json_permissions, containers, tasks,
          inv, sent, audit, calls, error>>

----------------------------------------------------------------------------
(* Bounds of the model *)

\* longest list of servers given to one command
MaxTargets == 2
\* handlers suspended at an await at the same time
MaxInFlight == 1

\* identities: u1 is the admin of the hand-written files, u2 and u3 are not
Users == {"u1", "u2", "u3"}
\* identities that issue commands
Requesters == {"u1", "u2"}
\* server names a requester types; the backend knows only some of them
Names == {"a", "b"}
\* the identity argument of permissions: a raw string, or a mention
UserArgs == {[user |-> "u2", mention |-> "-"], [user |-> "@u2", mention |-> "u2"]}
\* the action and perm arguments of permissions
ActionArgs == {"grant", "revoke", "show"}
PermArgs == {"restart"}
\* the numlines argument of get_logs as typed ("" when omitted)
NumlinesArgs == {"", "3", "25", "abc"}

----------------------------------------------------------------------------
(* Values *)

None == [py |-> "None"]
\* the invocation a step belongs to, and where the step left its handler
NoInv == [cmd |-> "-", user |-> "-", servers |-> <<>>, autofilled |-> FALSE,
          action |-> "-", target_user |-> "-", perm |-> "-", pc |-> "-",
          before |-> None, numlines |-> "-", allowed |-> <<>>]
\* (action, target_user and perm are the arguments of a permissions command
\* that an admin issued, target_user the identity it resolved, and before the
\* document as the command found it; numlines is the argument of get_logs as
\* typed; allowed is what perm_check would have given a restart when its
\* handler was entered, before the await)

NOT_FOUND == "Not Found/Invalid Name"

DefaultKeys == {"backup", "cmd", "kill", "list_backups", "restart", "restore",
                "start", "status", "stop", "get_logs"}

InList(x, s) == \E i \in DOMAIN s : s[i] = x

Range(s) == {s[i] : i \in DOMAIN s}

SeqsUpTo(S, n) == UNION {[1..k -> S] : k \in 0..n}

\* the entry permissions() appends for a target it has no entry for
NewEntry(target) ==
    [k \in DefaultKeys \cup {"name"} |-> IF k = "name" THEN target ELSE <<>>]

\* an entry of a hand-written file
Entry(target, acl) ==
    [k \in DOMAIN acl \cup {"name"} |-> IF k = "name" THEN target ELSE acl[k]]

Doc(admins, servers) == [users |-> [admins |-> admins], servers |-> servers]

\* json.dumps(json_permissions, indent=4, sort_keys=True): the text of the
\* document; a JSON object has no key order left once the keys are sorted,
\* a JSON array keeps the order of its list
dumps(doc) == [json |-> doc]

\* the text of a file that was only touched
ZeroBytes == [empty |-> TRUE]

\* json.load of the file's text: the zero-byte file is no JSON document
loads(text) == IF text = ZeroBytes THEN [err |-> "JSONDecodeError", val |-> None]
               ELSE [err |-> "none", val |-> text.json]

AllKeys(acl) == [k \in DefaultKeys |-> IF k \in DOMAIN acl THEN acl[k] ELSE <<>>]

\* the permission files the bot is started with
FileA == Doc(<<"u1">>,
             <<Entry("b", AllKeys([status |-> <<"u3">>, restart |-> <<"u3">>]))>>)
FileB == Doc(<<"u1">>,
             <<Entry("a", AllKeys([status |-> <<"u2", "u3">>, restart |-> <<"u3">>,
                                   kill |-> <<"u2">>, get_logs |-> <<"u2">>])),
               Entry("b", AllKeys([status |-> <<"u2">>, restart |-> <<"u2">>,
                                   start |-> <<"u2">>, kill |-> <<"u2">>,
                                   get_logs |-> <<"u2">>]))>>)
\* an entry written by hand with the keys its author needed: it has no
\* restart and no get_logs key
FileC == Doc(<<"u1">>,
             <<Entry("b", [status |-> <<"u2">>, kill |-> <<"u2">>, start |-> <<>>])>>)

\* (the zero-byte file is the one a start without a file leaves behind)
InitFiles == {[kind |-> "absent"],
              [kind |-> "bytes", text |-> dumps(FileA)],
              [kind |-> "bytes", text |-> dumps(FileB)],
              [kind |-> "bytes", text |-> dumps(FileC)]}

\* docker: the containers that exist, with their status
InitContainers == {[n \in {"a"} |-> "running"], [n \in {"a"} |-> "exited"]}

\* docker_client.containers.list(all=True), as names
ContainerOrder == <<"a", "b">>
containers_list(conts) == SelectSeq(ContainerOrder, LAMBDA n : n \in DOMAIN conts)

----------------------------------------------------------------------------
(* log and log_unauthorized *)

log(category, what, user, servers) ==
    [category |-> category, what |-> what, user |-> user, servers |-> servers]

log_unauthorized(cmdname, user, servers) ==
    log("FORBIDDEN", cmdname, user, servers)

----------------------------------------------------------------------------
(* perm_check *)

\* perm_check that takes an entry's name whatever its action sets say
perm_check_any_entry(doc, conts, user, cmdname) ==
    IF doc = None THEN [err |-> "TypeError", val |-> <<>>]
    ELSE IF InList(user, doc.users.admins)
    THEN [err |-> "none", val |-> containers_list(conts)]
    ELSE [err |-> "none", val |-> [i \in DOMAIN doc.servers |-> doc.servers[i].name]]

\* perm_check that gives an admin the names of the entries of servers
perm_check_entries_for_admin(doc, conts, user, cmdname) ==
    IF doc = None THEN [err |-> "TypeError", val |-> <<>>]
    ELSE IF InList(user, doc.users.admins)
    THEN [err |-> "none", val |-> [i \in DOMAIN doc.servers |-> doc.servers[i].name]]
    ELSE IF \E i \in DOMAIN doc.servers : cmdname \notin DOMAIN doc.servers[i]
    THEN [err |-> "KeyError", val |-> <<>>]
    ELSE LET granted == SelectSeq(doc.servers, LAMBDA s : InList(user, s[cmdname]))
         IN  [err |-> "none", val |-> [i \in DOMAIN granted |-> granted[i].name]]

perm_check(doc, conts, user, cmdname) ==
    IF doc = None THEN [err |-> "TypeError", val |-> <<>>]
    ELSE IF InList(user, doc.users.admins)
    THEN [err |-> "none", val |-> containers_list(conts)]
    ELSE IF \E i \in DOMAIN doc.servers : cmdname \notin DOMAIN doc.servers[i]
    THEN [err |-> "KeyError", val |-> <<>>]
    ELSE LET granted == SelectSeq(doc.servers, LAMBDA s : InList(user, s[cmdname]))
         IN  [err |-> "none", val |-> [i \in DOMAIN granted |-> granted[i].name]]

----------------------------------------------------------------------------
(* Messages, backend calls and the state of one pass over the servers *)

Embed(title, fields) ==
    [chan |-> "ctx", kind |-> "embed", title |-> title, fields |-> fields]

Text(chan, kind, about) == [chan |-> chan, kind |-> kind, about |-> about]

Field(name, value) == [name |-> name, value |-> value]

Call(op, target, user, cmdname) ==
    [op |-> op, target |-> target, user |-> user, cmd |-> cmdname]

\* str.title() of a container status
Title(status) == CASE status = "running" -> "Running"
                   [] status = "exited" -> "Exited"

RemoveAt(s, i) == [j \in 1..(Len(s) - 1) |-> IF j < i THEN s[j] ELSE s[j + 1]]

\* what a handler has done so far: the containers, the embed's fields, the
\* log entries, the backend calls, and the exception that ended it
Pass(conts) == [conts |-> conts, fields |-> <<>>, audit |-> <<>>, calls |-> <<>>,
                err |-> "none"]

----------------------------------------------------------------------------
(* The body of each handler's loop, for one server *)

restart_step(doc, user, st, server) ==
    LET pc == perm_check(doc, st.conts, user, "restart")
    IN  IF pc.err # "none" THEN [st EXCEPT !.err = pc.err]
        ELSE IF InList(server, pc.val)
        THEN IF server \notin DOMAIN st.conts
             THEN [st EXCEPT !.calls = Append(@, Call("get", server, user, "restart")),
                             !.fields = Append(@, Field(server, NOT_FOUND))]
             ELSE [st EXCEPT !.calls = @ \o <<Call("get", server, user, "restart"),
                                              Call("restart", server, user, "restart")>>,
                             !.conts[server] = "running",
                             !.fields = Append(@, Field(server, "Restart Sent"))]
        ELSE [st EXCEPT !.audit = Append(@, log_unauthorized("restart", user, <<server>>)),
                        !.fields = Append(@, Field(server, NOT_FOUND))]

\* docker refuses to kill a container that is not running (APIError); the
\* status in the reply is the one read by containers.get, before the kill
kill_step(doc, user, st, server) ==
    LET pc == perm_check(doc, st.conts, user, "kill")
    IN  IF pc.err # "none" THEN [st EXCEPT !.err = pc.err]
        ELSE IF InList(server, pc.val)
        THEN IF server \notin DOMAIN st.conts
             THEN [st EXCEPT !.calls = Append(@, Call("get", server, user, "kill")),
                             !.fields = Append(@, Field(server, NOT_FOUND))]
             ELSE IF st.conts[server] # "running"
             THEN [st EXCEPT !.calls = @ \o <<Call("get", server, user, "kill"),
                                              Call("kill", server, user, "kill")>>,
                             !.err = "APIError"]
             ELSE [st EXCEPT !.calls = @ \o <<Call("get", server, user, "kill"),
                                              Call("kill", server, user, "kill")>>,
                             !.conts[server] = "exited",
                             !.fields = Append(@, Field(server,
                                 "SIGKILL Sent - status is " \o st.conts[server]))]
        ELSE [st EXCEPT !.audit = Append(@, log_unauthorized("kill", user, <<server>>)),
                        !.fields = Append(@, Field(server, NOT_FOUND))]

\* the status in the reply is the one read by containers.get, before the start
start_step(doc, user, st, server) ==
    LET pc == perm_check(doc, st.conts, user, "start")
    IN  IF pc.err # "none" THEN [st EXCEPT !.err = pc.err]
        ELSE IF InList(server, pc.val)
        THEN IF server \notin DOMAIN st.conts
             THEN [st EXCEPT !.calls = Append(@, Call("get", server, user, "start")),
                             !.fields = Append(@, Field(server, NOT_FOUND))]
             ELSE [st EXCEPT !.calls = @ \o <<Call("get", server, user, "start"),
                                              Call("start", server, user, "start")>>,
                             !.conts[server] = "running",
                             !.fields = Append(@, Field(server, st.conts[server]))]
        ELSE [st EXCEPT !.audit = Append(@, log_unauthorized("start", user, <<server>>)),
                        !.fields = Append(@, Field(server, NOT_FOUND))]

\* status with more than one server: one field per server
status_step(doc, user, autofilled, st, server) ==
    LET pc == perm_check(doc, st.conts, user, "status")
    IN  IF pc.err # "none" THEN [st EXCEPT !.err = pc.err]
        ELSE IF InList(server, pc.val)
        THEN IF server \notin DOMAIN st.conts
             THEN [st EXCEPT !.calls = Append(@, Call("get", server, user, "status")),
                             !.fields = Append(@, Field(server, NOT_FOUND))]
             ELSE [st EXCEPT !.calls = Append(@, Call("get", server, user, "status")),
                             !.fields = Append(@, Field(server, Title(st.conts[server])))]
        ELSE IF ~autofilled
        THEN [st EXCEPT !.audit = Append(@, log_unauthorized("status", user, <<server>>)),
                        !.fields = Append(@, Field(server, NOT_FOUND))]
        ELSE st

\* status with one server: the detailed report
status_detail_step(doc, user, autofilled, st, server) ==
    LET pc == perm_check(doc, st.conts, user, "status")
    IN  IF pc.err # "none" THEN [st EXCEPT !.err = pc.err]
        ELSE IF InList(server, pc.val)
        THEN IF server \notin DOMAIN st.conts
             THEN [st EXCEPT !.calls = Append(@, Call("get", server, user, "status")),
                             !.fields = Append(@, Field(server, NOT_FOUND))]
             ELSE IF st.conts[server] = "running"
             THEN [st EXCEPT !.calls = @ \o <<Call("get", server, user, "status"),
                                              Call("exec_run", server, user, "status"),
                                              Call("exec_run", server, user, "status"),
                                              Call("exec_run", server, user, "status")>>,
                             !.fields = @ \o <<Field("Docker Status", Title(st.conts[server])),
                                               Field("Server Uptime", "uptime"),
                                               Field("World Size (Minecraft)", "du -h world/level.dat"),
                                               Field("Log Tail", "tail -n3 logs/latest.log")>>]
             ELSE [st EXCEPT !.calls = Append(@, Call("get", server, user, "status")),
                             !.fields = Append(@, Field("Docker Status", Title(st.conts[server])))]
        ELSE IF ~autofilled
        THEN [st EXCEPT !.audit = Append(@, log_unauthorized("status", user, <<server>>)),
                        !.fields = Append(@, Field(server, NOT_FOUND))]
        ELSE st

\* for server in servers: an exception ends the loop and the handler
RECURSIVE ForServers(_, _, _, _)
ForServers(Step(_, _), servers, i, st) ==
    IF i > Len(servers) \/ st.err # "none" THEN st
    ELSE ForServers(Step, servers, i + 1, Step(st, servers[i]))

restart_loop(doc, conts, user, servers) ==
    ForServers(LAMBDA st, server : restart_step(doc, user, st, server),
               servers, 1, Pass(conts))

kill_loop(doc, conts, user, servers) ==
    ForServers(LAMBDA st, server : kill_step(doc, user, st, server),
               servers, 1, Pass(conts))

start_loop(doc, conts, user, servers) ==
    ForServers(LAMBDA st, server : start_step(doc, user, st, server),
               servers, 1, Pass(conts))

status_loop(doc, conts, user, servers, autofilled) ==
    IF Len(servers) > 1
    THEN ForServers(LAMBDA st, server : status_step(doc, user, autofilled, st, server),
                    servers, 1, Pass(conts))
    ELSE ForServers(LAMBDA st, server : status_detail_step(doc, user, autofilled, st, server),
                    servers, 1, Pass(conts))

----------------------------------------------------------------------------
(* Startup: the module-level load of the permissions file *)

Init ==
    /\ proc = "start"
    /\ file \in InitFiles
    /\ fileErr \in {"none", "PermissionError", "OSError"}
    /\ (file.kind = "absent" => fileErr = "none")
    /\ json_permissions = None
    /\ containers \in InitContainers
    /\ tasks = <<>>
    /\ inv = NoInv
    /\ sent = <<>>
    /\ audit = <<>>
    /\ calls = <<>>
    /\ error = "none"

Quiet == /\ sent' = <<>>
         /\ calls' = <<>>

Load ==
    /\ proc = "start"
    /\ inv' = [NoInv EXCEPT !.cmd = "load", !.pc = "done"]
    /\ Quiet
    /\ UNCHANGED <<fileErr, containers, tasks>>
    /\ IF file.kind = "absent"
       THEN /\ file' = [kind |-> "bytes", text |-> ZeroBytes]
            /\ json_permissions' = None
            /\ audit' = <<log("INFO", "load", "-", <<>>), log("WARNING", "load", "-", <<>>)>>
            /\ error' = "none"
            /\ proc' = "serving"
       ELSE IF fileErr = "PermissionError"
       THEN /\ UNCHANGED <<file, json_permissions>>
            /\ audit' = <<log("INFO", "load", "-", <<>>), log("ERROR", "load", "-", <<>>)>>
            /\ error' = "none"
            /\ proc' = "serving"
       ELSE IF fileErr = "OSError"
       THEN /\ UNCHANGED <<file, json_permissions>>
            /\ audit' = <<log("INFO", "load", "-", <<>>), log("ERROR", "load", "-", <<>>)>>
            /\ error' = "SystemExit"
            /\ proc' = "exited"
       ELSE LET r == loads(file.text)
            IN  /\ UNCHANGED file
                /\ json_permissions' = r.val
                /\ error' = r.err
                /\ audit' = IF r.err = "none"
                            THEN <<log("INFO", "load", "-", <<>>), log("INFO", "loaded", "-", <<>>)>>
                            ELSE <<log("INFO", "load", "-", <<>>)>>
                /\ proc' = IF r.err = "none" THEN "serving" ELSE "crashed"

\* The process is stopped and started again: bot.run returns, the handlers
\* that were suspended are gone with the event loop, and the module's
\* top level runs anew, from json_permissions = None.
Stop ==
    /\ proc = "serving"
    /\ inv = NoInv
    /\ proc' = "start"
    /\ json_permissions' = None
    /\ tasks' = <<>>
    /\ UNCHANGED <<file, fileErr, containers, inv, sent, audit, calls, error>>

----------------------------------------------------------------------------
(* The commands.  A handler that awaits before its work is done leaves a    *)
(* task behind; the send that ends a handler is part of its last step,     *)
(* nothing of the handler runs after it.                                   *)

\* the event loop takes the next event once the last step's messages and log
\* lines are out
Serving == proc = "serving" /\ inv = NoInv

Idle ==
    /\ inv # NoInv
    /\ inv' = NoInv
    /\ sent' = <<>>
    /\ audit' = <<>>
    /\ calls' = <<>>
    /\ error' = "none"
    /\ UNCHANGED <<proc, file, fileErr, json_permissions, containers, tasks>>

Invocation(cmdname, user, servers) ==
    [NoInv EXCEPT !.cmd = cmdname, !.user = user, !.servers = servers, !.pc = "done"]

\* the end of a pass over the servers: the embed is sent unless the pass raised
Finish(title, st) ==
    /\ containers' = st.conts
    /\ audit' = st.audit
    /\ calls' = st.calls
    /\ error' = st.err
    /\ sent' = IF st.err = "none" THEN <<Embed(title, st.fields)>> ELSE <<>>

\* the handler raised before it did anything else
Raise(err, logged) ==
    /\ error' = err
    /\ audit' = logged
    /\ Quiet
    /\ UNCHANGED containers

\* status, up to  async with ctx.typing()
status(user, servers) ==
    /\ Serving
    /\ Len(tasks) < MaxInFlight
    /\ UNCHANGED <<proc, file, fileErr, json_permissions>>
    /\ LET logged == <<log("INFO", "status", user, servers)>>
           pc == perm_check(json_permissions, containers, user, "status")
           autofilled == servers = <<>>
           list == IF autofilled THEN pc.val ELSE servers
       IN  IF autofilled /\ pc.err # "none"
           THEN /\ Raise(pc.err, logged)
                /\ inv' = Invocation("status", user, servers)
                /\ UNCHANGED tasks
           ELSE IF list = <<>>
           THEN /\ Raise("IndexError", logged)
                /\ inv' = [Invocation("status", user, list) EXCEPT !.autofilled = autofilled]
                /\ UNCHANGED tasks
           ELSE /\ Raise("none", logged)
                /\ inv' = [Invocation("status", user, list) EXCEPT
                              !.autofilled = autofilled, !.pc = "typing"]
                /\ tasks' = Append(tasks, inv')

\* status, from  async with ctx.typing()  to the end
status_resume(i) ==
    /\ Serving
    /\ i \in DOMAIN tasks
    /\ tasks[i].cmd = "status"
    /\ UNCHANGED <<proc, file, fileErr, json_permissions>>
    /\ tasks' = RemoveAt(tasks, i)
    /\ inv' = [tasks[i] EXCEPT !.pc = "done"]
    /\ Finish(IF Len(tasks[i].servers) > 1 THEN "Server Statuses"
              ELSE tasks[i].servers[1] \o " Detailed Status Report",
              status_loop(json_permissions, containers, tasks[i].user,
                          tasks[i].servers, tasks[i].autofilled))

\* restart, up to  async with ctx.typing()
restart(user, servers) ==
    /\ Serving
    /\ Len(tasks) < MaxInFlight
    /\ UNCHANGED <<proc, file, fileErr, json_permissions>>
    /\ Raise("none", <<log("INFO", "restart", user, servers)>>)
    /\ inv' = [Invocation("restart", user, servers) EXCEPT
                  !.pc = "typing",
                  !.allowed = perm_check(json_permissions, containers, user, "restart").val]
    /\ tasks' = Append(tasks, inv')

\* restart_resume that goes by the authorization as it was when the handler
\* was entered, and does not ask perm_check again after the await
restart_resume_checked_at_entry(i) ==
    /\ Serving
    /\ i \in DOMAIN tasks
    /\ tasks[i].cmd = "restart"
    /\ UNCHANGED <<proc, file, fileErr, json_permissions>>
    /\ tasks' = RemoveAt(tasks, i)
    /\ inv' = [tasks[i] EXCEPT !.pc = "done"]
    /\ Finish("Restart Results",
              ForServers(LAMBDA st, server :
                  IF InList(server, tasks[i].allowed) /\ server \in DOMAIN st.conts
                  THEN [st EXCEPT !.calls = @ \o <<Call("get", server, tasks[i].user, "restart"),
                                                   Call("restart", server, tasks[i].user, "restart")>>,
                                  !.conts[server] = "running",
                                  !.fields = Append(@, Field(server, "Restart Sent"))]
                  ELSE [st EXCEPT !.fields = Append(@, Field(server, NOT_FOUND))],
                  tasks[i].servers, 1, Pass(containers)))

\* restart, from  async with ctx.typing()  to the end
restart_resume(i) ==
    /\ Serving
    /\ i \in DOMAIN tasks
    /\ tasks[i].cmd = "restart"
    /\ UNCHANGED <<proc, file, fileErr, json_permissions>>
    /\ tasks' = RemoveAt(tasks, i)
    /\ inv' = [tasks[i] EXCEPT !.pc = "done"]
    /\ Finish("Restart Results",
              restart_loop(json_permissions, containers, tasks[i].user, tasks[i].servers))

kill(user, servers) ==
    /\ Serving
    /\ UNCHANGED <<proc, file, fileErr, json_permissions, tasks>>
    /\ inv' = Invocation("kill", user, servers)
    /\ LET st == kill_loop(json_permissions, containers, user, servers)
       IN  Finish("SIGKILL Results",
                  [st EXCEPT !.audit = <<log("INFO", "kill", user, servers)>> \o @])

start(user, servers) ==
    /\ Serving
    /\ UNCHANGED <<proc, file, fileErr, json_permissions, tasks>>
    /\ inv' = Invocation("start", user, servers)
    /\ LET st == start_loop(json_permissions, containers, user, servers)
       IN  Finish("Start Results",
                  [st EXCEPT !.audit = <<log("INFO", "start", user, servers)>> \o @])

\* the int converter of the numlines parameter; 10 when it is omitted.  The
\* framework converts the argument before it calls the handler and raises
\* BadArgument for a text that int() refuses.
ParseInt(s) == CASE s = "" -> [err |-> "none", val |-> 10]
                 [] s = "3" -> [err |-> "none", val |-> 3]
                 [] s = "25" -> [err |-> "none", val |-> 25]
                 [] OTHER -> [err |-> "BadArgument", val |-> 0]

\* the command line get_logs hands to exec_run
log_command(n) == [tail |-> n, of |-> "logs/latest.log"]

\* tooLong: discord refuses the message (HTTPException) because the output
\* is longer than 2000 characters
get_logs(user, server, numlines, tooLong) ==
    /\ Serving
    /\ UNCHANGED <<proc, file, fileErr, json_permissions, tasks, containers>>
    /\ inv' = [Invocation("get_logs", user, <<server>>) EXCEPT !.numlines = numlines]
    /\ LET logged == <<log("INFO", "get_logs", user, <<server>>)>>
           n == ParseInt(numlines)
           pc == perm_check(json_permissions, containers, user, "get_logs")
       IN  IF n.err # "none"
           THEN /\ error' = n.err
                /\ audit' = <<>>
                /\ Quiet
           ELSE IF pc.err # "none"
           THEN /\ error' = pc.err
                /\ audit' = logged
                /\ Quiet
           ELSE IF ~InList(server, pc.val)
           THEN /\ error' = "none"
                /\ audit' = logged \o <<log_unauthorized("get_logs", user, <<server>>)>>
                /\ Quiet
           ELSE IF server \notin DOMAIN containers
           THEN /\ error' = "NotFound"
                /\ audit' = logged
                /\ sent' = <<>>
                /\ calls' = <<Call("get", server, user, "get_logs")>>
           ELSE IF containers[server] # "running"
           THEN /\ error' = "APIError"
                /\ audit' = logged
                /\ sent' = <<>>
                /\ calls' = <<Call("get", server, user, "get_logs"),
                              Call("exec_run", server, user, "get_logs")
                                  @@ [line |-> log_command(n.val)]>>
           ELSE /\ error' = "none"
                /\ audit' = logged
                /\ calls' = <<Call("get", server, user, "get_logs"),
                              Call("exec_run", server, user, "get_logs")
                                  @@ [line |-> log_command(n.val)]>>
                /\ sent' = IF tooLong
                           THEN <<Text("ctx", "too long", log_command(n.val))>>
                           ELSE <<Text("ctx", "logs", log_command(n.val))>>

\* cmd, backup, restore and list_backups are registered with enabled=False:
\* the framework raises DisabledCommand and the handler's body never runs
DisabledCommands == {"cmd", "backup", "restore", "list_backups"}

disabled(cmdname, user) ==
    /\ Serving
    /\ UNCHANGED <<proc, file, fileErr, json_permissions, tasks>>
    /\ inv' = Invocation(cmdname, user, <<>>)
    /\ Raise("DisabledCommand", <<>>)

bot_uptime(user) ==
    /\ Serving
    /\ UNCHANGED <<proc, file, fileErr, json_permissions, tasks, containers>>
    /\ inv' = Invocation("bot_uptime", user, <<>>)
    /\ error' = "none"
    /\ audit' = <<log("INFO", "bot_uptime", user, <<>>)>>
    /\ calls' = <<>>
    /\ sent' = <<Text("ctx", "uptime", [of |-> "bot"])>>

----------------------------------------------------------------------------
(* permissions and dump_perms *)

is_admin(doc, user) == InList(user, doc.users.admins)

\* ensure_entry that appends without looking for an entry of that name
ensure_entry_always(doc, target) ==
    [doc EXCEPT !.servers = Append(@, NewEntry(target))]

\* if target not in [server["name"] ...]: json_permissions["servers"].append
ensure_entry(doc, target) ==
    IF \E i \in DOMAIN doc.servers : doc.servers[i].name = target
    THEN doc
    ELSE [doc EXCEPT !.servers = Append(@, NewEntry(target))]

\* change_entry whose grant appends without looking
change_entry_append(server, action, target_user, perm) ==
    LET s1 == IF perm \notin DOMAIN server
              THEN [k \in DOMAIN server \cup {perm} |->
                        IF k = perm THEN <<>> ELSE server[k]]
              ELSE server
    IN  IF action = "grant"
        THEN [s1 EXCEPT ![perm] = Append(@, target_user)]
        ELSE IF action = "revoke" /\ InList(target_user, s1[perm])
        THEN [s1 EXCEPT ![perm] = SelectSeq(@, LAMBDA p : p # target_user)]
        ELSE s1

\* change_entry whose revoke keeps the revoked identity and drops the others
change_entry_keep(server, action, target_user, perm) ==
    LET s1 == IF perm \notin DOMAIN server
              THEN [k \in DOMAIN server \cup {perm} |->
                        IF k = perm THEN <<>> ELSE server[k]]
              ELSE server
    IN  IF action = "grant" /\ ~InList(target_user, s1[perm])
        THEN [s1 EXCEPT ![perm] = Append(@, target_user)]
        ELSE IF action = "revoke"
        THEN [s1 EXCEPT ![perm] = SelectSeq(@, LAMBDA p : p = target_user)]
        ELSE s1

\* the body of  for server in [s for s in servers if s["name"] == target]
change_entry(server, action, target_user, perm) ==
    LET s1 == IF perm \notin DOMAIN server
              THEN [k \in DOMAIN server \cup {perm} |->
                        IF k = perm THEN <<>> ELSE server[k]]
              ELSE server
    IN  IF action = "grant" /\ ~InList(target_user, s1[perm])
        THEN [s1 EXCEPT ![perm] = Append(@, target_user)]
        ELSE IF action = "revoke" /\ InList(target_user, s1[perm])
        THEN [s1 EXCEPT ![perm] = SelectSeq(@, LAMBDA p : p # target_user)]
        ELSE s1

\* the document after lines 250-274 of permissions
change_doc(doc, action, target_user, target, perm) ==
    LET d1 == ensure_entry(doc, target)
    IN  [d1 EXCEPT !.servers =
            [i \in DOMAIN @ |-> IF @[i].name = target
                                THEN change_entry(@[i], action, target_user, perm)
                                ELSE @[i]]]

\* a write that comes before the change
written_early(old, new) == dumps(old)

\* what permissions writes to the file, given the document before and after
\* its change
written(old, new) == dumps(new)

\* permissions: the change, the write of the file, the log entry and, after
\* the awaits that end the handler, the direct message to the requester
permissions(user, action, ua, target, perm) ==
    /\ Serving
    /\ UNCHANGED <<proc, fileErr, containers, tasks>>
    /\ calls' = <<>>
    /\ LET target_user == IF ua.mention = "-" THEN ua.user ELSE ua.mention
           this == Invocation("permissions", user, <<>>)
       IN  IF json_permissions = None
           THEN /\ inv' = this
                /\ error' = "TypeError"
                /\ audit' = <<>>
                /\ sent' = <<>>
                /\ UNCHANGED <<json_permissions, file>>
           ELSE IF is_admin(json_permissions, user)
           THEN /\ json_permissions' =
                       change_doc(json_permissions, action, target_user, target, perm)
                /\ file' = [kind |-> "bytes",
                            text |-> written(json_permissions, json_permissions')]
                /\ audit' = <<log("INFO", "permissions", user, <<target>>)>>
                /\ error' = "none"
                /\ inv' = [this EXCEPT !.servers = <<target>>, !.action = action,
                                       !.target_user = target_user, !.perm = perm,
                                       !.before = json_permissions]
                /\ sent' = <<Text("dm", "processed",
                                  [action |-> action, perm |-> perm, target |-> target])>>
           ELSE /\ inv' = this
                /\ error' = "none"
                /\ audit' = <<log_unauthorized("permissions", user, <<"PERMISSIONS_FILE">>)>>
                /\ sent' = <<>>
                /\ UNCHANGED <<json_permissions, file>>

dump_perms(user) ==
    /\ Serving
    /\ UNCHANGED <<proc, file, fileErr, json_permissions, containers, tasks>>
    /\ inv' = Invocation("dump_perms", user, <<>>)
    /\ IF json_permissions = None
       THEN /\ error' = "TypeError"
            /\ audit' = <<>>
            /\ Quiet
       ELSE IF is_admin(json_permissions, user)
       THEN /\ error' = "none"
            /\ audit' = <<log("INFO", "dump_perms", user, <<>>)>>
            /\ calls' = <<>>
            /\ sent' = <<Text("ctx", "json", dumps(json_permissions))>>
       ELSE /\ error' = "none"
            /\ audit' = <<log_unauthorized("dump_perms", user, <<"DEBUG_FUNCTION">>)>>
            /\ Quiet

----------------------------------------------------------------------------
(* What the claims speak of *)

ListCommands == {"status", "restart", "kill", "start"}
TargetCommands == ListCommands \cup {"get_logs"}
BackendOps == {"restart", "kill", "start", "exec_run"}

Count(x, s) == Cardinality({i \in DOMAIN s : s[i] = x})

\* u is in the action set a of an entry named t
Granted(doc, u, a, t) ==
    \E i \in DOMAIN doc.servers :
        /\ doc.servers[i].name = t
        /\ a \in DOMAIN doc.servers[i]
        /\ InList(u, doc.servers[i][a])

\* the ACL allows u to run a on t: u is an admin, or the entry of t grants it
AclAllows(doc, u, a, t) ==
    /\ doc # None
    /\ (InList(u, doc.users.admins) \/ Granted(doc, u, a, t))

Forbidden == SelectSeq(audit, LAMBDA e : e.category = "FORBIDDEN")

HasEntry(doc, t) == \E i \in DOMAIN doc.servers : doc.servers[i].name = t

\* C1: every backend call of a step (containers.get, restart, kill, start,
\* exec_run) on target t for requester u and command a is one the ACL allows:
\* u is an admin, or u is in the a set of an entry named t.  The handlers
\* that call the backend leave the document as it was at the call.
C1_BackendCallsAllowed ==
    \A i \in DOMAIN calls :
        AclAllows(json_permissions, calls[i].user, calls[i].cmd, calls[i].target)

C1_Witness ==
    /\ json_permissions # None
    /\ \E i \in DOMAIN calls :
          /\ calls[i].op \in BackendOps
          /\ ~InList(calls[i].user, json_permissions.users.admins)

\* C2 as stated: a target-scoped command of an admin records no FORBIDDEN
\* entry, whatever target names were requested.
C2_Original ==
    (/\ json_permissions # None
     /\ inv.cmd \in TargetCommands
     /\ inv.pc = "done"
     /\ is_admin(json_permissions, inv.user))
    => Forbidden = <<>>

\* C2 as amended: an admin is authorized for every action on every target the
\* backend knows, entry in servers or not, and a command of an admin records
\* no FORBIDDEN entry for such a target.
C2_AdminAuthorizedOnBackendTargets ==
    json_permissions # None =>
        \A u \in Users : is_admin(json_permissions, u) =>
            /\ \A a \in TargetCommands, t \in DOMAIN containers :
                  InList(t, perm_check(json_permissions, containers, u, a).val)
            /\ (inv.user = u /\ inv.cmd \in TargetCommands) =>
                  \A i \in DOMAIN Forbidden :
                      Range(Forbidden[i].servers) \cap DOMAIN containers = {}

C2_Witness ==
    /\ json_permissions # None
    /\ inv.cmd \in TargetCommands
    /\ inv.pc = "done"
    /\ is_admin(json_permissions, inv.user)
    /\ Forbidden = <<>>
    /\ \E i \in DOMAIN calls :
          /\ calls[i].op \in BackendOps
          /\ ~HasEntry(json_permissions, calls[i].target)

\* authorized_targets as the contract words it: the backend's targets for an
\* admin, the entries that grant the action for anyone else
Authorized(doc, conts, u, a, t) ==
    /\ doc # None
    /\ IF InList(u, doc.users.admins) THEN t \in DOMAIN conts
       ELSE Granted(doc, u, a, t)

NotAdmin(doc, u) == doc = None \/ ~InList(u, doc.users.admins)

\* the step was a permissions command that an admin issued
AdminChange(action) ==
    /\ inv.cmd = "permissions"
    /\ inv.action = action
    /\ inv.before # None

\* C3 as stated: for a non-admin u and an action a, perm_check gives exactly
\* the names of the entries whose a set contains u (none when the bot started
\* without a file), and a grant or revoke of (u, t, a) changes the result for
\* no other identity, action or target.
C3_Original ==
    /\ proc = "serving" =>
          \A u \in Users, a \in TargetCommands : NotAdmin(json_permissions, u) =>
              LET r == perm_check(json_permissions, containers, u, a)
              IN  /\ r.err = "none"
                  /\ Range(r.val) = {t \in Names : json_permissions # None
                                                  /\ Granted(json_permissions, u, a, t)}
    /\ (AdminChange("grant") \/ AdminChange("revoke")) =>
          \A u \in Users, a \in DefaultKeys, t \in Names :
              <<u, a, t>> # <<inv.target_user, inv.perm, inv.servers[1]>> =>
                  Granted(inv.before, u, a, t) = Granted(json_permissions, u, a, t)

\* C4 as stated: permissions or dump_perms by an identity that is not an
\* admin leaves the document and the file as they were, sends nothing and
\* records a FORBIDDEN entry.
C4_Original ==
    [][(inv'.cmd \in {"permissions", "dump_perms"} /\ NotAdmin(json_permissions, inv'.user))
        => /\ json_permissions' = json_permissions
           /\ file' = file
           /\ sent' = <<>>
           /\ \E i \in DOMAIN audit' : audit'[i].category = "FORBIDDEN"]_vars

\* C5: after a grant of (u, t, a) by an admin, u is exactly once in the a set
\* of the entry of t; a grant that finds u there, whatever grants and revokes
\* came in between, leaves the document as it was, and so would one more.
C5_GrantIdempotent ==
    AdminChange("grant") =>
        LET t == inv.servers[1]
            u == inv.target_user
            a == inv.perm
        IN  /\ HasEntry(json_permissions, t)
            /\ \A i \in DOMAIN json_permissions.servers :
                  json_permissions.servers[i].name = t =>
                      /\ a \in DOMAIN json_permissions.servers[i]
                      /\ Count(u, json_permissions.servers[i][a]) = 1
            /\ (Granted(inv.before, u, a, t) => json_permissions = inv.before)
            /\ change_doc(json_permissions, "grant", u, t, a) = json_permissions

C5_Witness ==
    /\ AdminChange("grant")
    /\ Granted(inv.before, inv.target_user, inv.perm, inv.servers[1])
    /\ json_permissions = inv.before
    /\ Len(sent) = 1

\* before and after differ only in what a change of (t, a) had to create: an
\* entry for t with empty sets, or an empty a set on the entry of t
SameButCreated(old, new, t, a) ==
    /\ new.users = old.users
    /\ Len(new.servers) >= Len(old.servers)
    /\ Len(new.servers) <= Len(old.servers) + 1
    /\ \A i \in DOMAIN new.servers :
          IF i \in DOMAIN old.servers
          THEN /\ DOMAIN old.servers[i] \subseteq DOMAIN new.servers[i]
               /\ \A k \in DOMAIN old.servers[i] : new.servers[i][k] = old.servers[i][k]
               /\ \A k \in DOMAIN new.servers[i] \ DOMAIN old.servers[i] :
                     /\ k = a
                     /\ old.servers[i].name = t
                     /\ new.servers[i][k] = <<>>
          ELSE /\ ~HasEntry(old, t)
               /\ new.servers[i].name = t
               /\ \A k \in DOMAIN new.servers[i] \ {"name"} : new.servers[i][k] = <<>>

\* C6: a revoke of (u, t, a) by an admin that finds u absent from the a set of
\* t leaves the document as it was, but for the entry of t or its a set when
\* the revoke had to create them.
C6_RevokeAbsentIsNoop ==
    (AdminChange("revoke")
     /\ ~Granted(inv.before, inv.target_user, inv.perm, inv.servers[1]))
    => SameButCreated(inv.before, json_permissions, inv.servers[1], inv.perm)

C6_Witness ==
    /\ AdminChange("revoke")
    /\ ~Granted(inv.before, inv.target_user, inv.perm, inv.servers[1])
    /\ json_permissions # inv.before
    /\ \E u \in Users \ {inv.target_user}, t \in Names :
          Granted(inv.before, u, inv.perm, t)

Acknowledged ==
    /\ inv.cmd = "permissions"
    /\ \/ \E i \in DOMAIN audit : audit[i].category = "INFO" /\ audit[i].what = "permissions"
       \/ \E i \in DOMAIN sent : sent[i].chan = "dm"

\* C7: once a grant or revoke is acknowledged (its log entry, its direct
\* message), the file holds the whole document as that command changed it;
\* and whenever a document is loaded, the file holds that document.
C7_PersistedBeforeAcknowledged ==
    /\ json_permissions # None =>
          file = [kind |-> "bytes", text |-> dumps(json_permissions)]
    /\ (Acknowledged /\ inv.action \in {"grant", "revoke"}) =>
          /\ inv.before # None
          /\ json_permissions =
                 change_doc(inv.before, inv.action, inv.target_user, inv.servers[1], inv.perm)
          /\ file.kind = "bytes"
          /\ loads(file.text) = [err |-> "none", val |-> json_permissions]

C7_Witness ==
    /\ Acknowledged
    /\ inv.action = "grant"
    /\ json_permissions # inv.before
    /\ file.kind = "bytes"
    /\ loads(file.text).val = json_permissions

\* C8 as stated: a start without the file leaves an empty document (no
\* admins, no servers) that perm_check can be evaluated against, and the file
\* as a zero-byte placeholder.
C8_Original ==
    (inv.cmd = "load" /\ \E i \in DOMAIN audit : audit[i].category = "WARNING")
    => /\ proc = "serving"
       /\ file = [kind |-> "bytes", text |-> ZeroBytes]
       /\ json_permissions = Doc(<<>>, <<>>)
       /\ \A u \in Users, a \in TargetCommands :
             perm_check(json_permissions, containers, u, a).err = "none"

\* the embed the step sent names t with the Not Found/Invalid Name outcome
RepliedNotFound(t) ==
    \E i \in DOMAIN sent :
        /\ sent[i].kind = "embed"
        /\ InList(Field(t, NOT_FOUND), sent[i].fields)

\* C9 as stated: for a target-scoped command and a requested target, the
\* requester who is not authorized for the target and the requester who is
\* authorized for a target the backend does not know both get the
\* Not Found/Invalid Name outcome for that target.  (Stated of the commands
\* that ran to their end without raising.)
C9_Original ==
    (/\ json_permissions # None
     /\ inv.cmd \in TargetCommands
     /\ inv.pc = "done"
     /\ ~inv.autofilled
     /\ error = "none")
    => \A t \in Range(inv.servers) :
          \/ Authorized(json_permissions, containers, inv.user, inv.cmd, t)
             /\ t \in DOMAIN containers
          \/ RepliedNotFound(t)

\* the requested targets of the step's command that the requester is denied
Denied ==
    {t \in Range(inv.servers) :
        ~Authorized(json_permissions, containers, inv.user, inv.cmd, t)}

\* C10 as stated: a command that ran to its reply, for distinct requested
\* targets of which at least one is denied, records exactly one FORBIDDEN
\* entry, which names the denied targets and no other, and the reply holds an
\* outcome for every authorized target.
C10_Original ==
    (/\ json_permissions # None
     /\ inv.cmd \in ListCommands
     /\ inv.pc = "done"
     /\ ~inv.autofilled
     /\ error = "none"
     /\ Cardinality(Range(inv.servers)) = Len(inv.servers)
     /\ Denied # {})
    => /\ Len(Forbidden) = 1
       /\ Range(Forbidden[1].servers) = Denied
       /\ \A t \in Range(inv.servers) \ Denied :
             \E i \in DOMAIN sent : \E j \in DOMAIN sent[i].fields :
                 sent[i].fields[j].name \in {t, "Docker Status"}

\* C11 as stated: for status, restart, kill and start, an invocation whose
\* target list is empty works on exactly what perm_check gives the requester,
\* with autofilled set, and one whose list is not empty works on that list,
\* with autofilled unset.  (Stated of the invocations whose perm_check does
\* not raise, at the handler's first step.)
C11_Original ==
    (/\ json_permissions # None
     /\ inv.cmd \in ListCommands
     /\ perm_check(json_permissions, containers, inv.user, inv.cmd).err = "none")
    => /\ (inv.autofilled /\ inv.pc = "typing") =>
             inv.servers = perm_check(json_permissions, containers, inv.user, inv.cmd).val
       /\ ~inv.autofilled => inv.servers # <<>>

\* C12 as stated: a restart, kill or start whose authorization checks do not
\* raise ends with its reply sent, one outcome per requested target, also
\* when the backend refuses the operation on one of the targets.
C12_Original ==
    (/\ json_permissions # None
     /\ inv.cmd \in {"restart", "kill", "start"}
     /\ inv.pc = "done"
     /\ error \notin {"TypeError", "KeyError"})
    => /\ error = "none"
       /\ Len(sent) = 1
       /\ Len(sent[1].fields) = Len(inv.servers)

\* C13 as stated: get_logs by a requester the ACL allows, for a running
\* container, with a line count that is no number, is not rejected: it calls
\* exec_run with the command line for 10 lines.
C13_Original ==
    (/\ json_permissions # None
     /\ inv.cmd = "get_logs"
     /\ inv.numlines = "abc"
     /\ AclAllows(json_permissions, inv.user, "get_logs", inv.servers[1])
     /\ inv.servers[1] \in DOMAIN containers
     /\ containers[inv.servers[1]] = "running")
    => /\ error = "none"
       /\ \E i \in DOMAIN calls :
             /\ calls[i].op = "exec_run"
             /\ calls[i].line = log_command(10)

\* the most lines get_logs is documented to pull
MaxLogLines == 20

\* C14 as stated: the line count in the command line get_logs hands to
\* exec_run is at most 20, whatever count the requester gave.
C14_Original ==
    \A i \in DOMAIN calls :
        (calls[i].cmd = "get_logs" /\ calls[i].op = "exec_run")
            => calls[i].line.tail <= MaxLogLines

\* C15 as stated: a command of a non-admin for which some entry of servers
\* has no key does not end in an error of the authorization check: perm_check
\* gives the names of the entries that grant it, the entry without the key
\* not among them.
C15_Original ==
    (/\ json_permissions # None
     /\ inv.cmd \in TargetCommands
     /\ inv.pc = "done"
     /\ ~is_admin(json_permissions, inv.user)
     /\ \E i \in DOMAIN json_permissions.servers :
           inv.cmd \notin DOMAIN json_permissions.servers[i])
    => /\ error # "KeyError"
       /\ perm_check(json_permissions, containers, inv.user, inv.cmd).err = "none"

EntriesOf(doc, t) == {i \in DOMAIN doc.servers : doc.servers[i].name = t}

InForce(u, a, t) ==
    IF json_permissions # None THEN Granted(json_permissions, u, a, t)
    ELSE /\ file.kind = "bytes"
         /\ file.text # ZeroBytes
         /\ Granted(file.text.json, u, a, t)

\* C17: an acknowledged revoke of (u, t, a) leaves the grant out of force; a
\* grant that is out of force comes into force by nothing but an admin's grant
\* of that triple; and every backend call of a step for a non-admin u, command
\* a and target t is made while the grant of (u, t, a) is in force.  So
\* between the revoke and a later grant no handler calls the backend for it,
\* the handlers that were suspended at an await when the revoke ran included.
C17_NoCallAfterRevoke ==
    /\ [](/\ AdminChange("revoke") =>
               ~InForce(inv.target_user, inv.perm, inv.servers[1])
          /\ \A i \in DOMAIN calls :
                NotAdmin(json_permissions, calls[i].user) =>
                    /\ json_permissions # None
                    /\ InForce(calls[i].user, calls[i].cmd, calls[i].target))
    /\ [][\A u \in Users, a \in DefaultKeys, t \in Names :
             (~InForce(u, a, t) /\ InForce(u, a, t)') =>
                 /\ AdminChange("grant")'
                 /\ <<inv'.target_user, inv'.perm, inv'.servers[1]>> = <<u, a, t>>]_vars

\* a restart of a non-admin that was entered while a target was granted and
\* whose loop, after the await, found the grant revoked: no call for that
\* target, a FORBIDDEN entry, and the call for the target still granted
C17_Witness ==
    /\ inv.cmd = "restart"
    /\ inv.pc = "done"
    /\ NotAdmin(json_permissions, inv.user)
    /\ \E t \in Range(inv.servers) :
          /\ InList(t, inv.allowed)
          /\ ~InForce(inv.user, "restart", t)
          /\ \A i \in DOMAIN calls : calls[i].target # t
          /\ \E i \in DOMAIN Forbidden : Forbidden[i].servers = <<t>>
    /\ \E i \in DOMAIN calls : calls[i].op = "restart"

\* C18 as stated: a permissions command of an admin whose action argument is
\* neither grant nor revoke leaves the document and the file as they were and
\* is not reported as executed: no log entry of the change, no direct message
\* that it was processed.
C18_Original ==
    (/\ inv.cmd = "permissions"
     /\ inv.before # None
     /\ inv.action \notin {"grant", "revoke"})
    => /\ json_permissions = inv.before
       /\ file = [kind |-> "bytes", text |-> dumps(inv.before)]
       /\ ~Acknowledged

\* C19 as stated: a status command without targets, by a requester for whom
\* perm_check gives no target, ends normally: a reply without outcomes, no
\* FORBIDDEN entry, no error.
C19_Original ==
    (/\ json_permissions # None
     /\ inv.cmd = "status"
     /\ inv.autofilled
     /\ inv.servers = <<>>
     /\ inv.pc = "done")
    => /\ error = "none"
       /\ Forbidden = <<>>
       /\ Len(sent) = 1
       /\ sent[1].fields = <<>>

\* C20 as stated: a start that finds the zero-byte file which an earlier
\* start without a file left behind, and which no grant or revoke has
\* rewritten since, ends loading with an empty document and serves commands.
C20_Original ==
    (/\ inv.cmd = "load"
     /\ file = [kind |-> "bytes", text |-> ZeroBytes]
     /\ \A i \in DOMAIN audit : audit[i].category # "WARNING")
    => /\ proc = "serving"
       /\ error = "none"
       /\ json_permissions = Doc(<<>>, <<>>)

----------------------------------------------------------------------------

Next ==
    \/ Load
    \/ Stop
    \/ Idle
    \/ \E u \in Requesters, servers \in SeqsUpTo(Names, MaxTargets) :
          \/ status(u, servers)
          \/ restart(u, servers)
          \/ kill(u, servers)
          \/ start(u, servers)
    \/ \E u \in Requesters, server \in Names, numlines \in NumlinesArgs, tooLong \in BOOLEAN :
          get_logs(u, server, numlines, tooLong)
    \/ \E u \in Requesters :
          \/ \E c \in DisabledCommands : disabled(c, u)
          \/ bot_uptime(u)
          \/ dump_perms(u)
          \/ \E action \in ActionArgs, ua \in UserArgs, target \in Names, perm \in PermArgs :
                permissions(u, action, ua, target, perm)
    \/ \E i \in 1..MaxInFlight :
          \/ status_resume(i)
          \/ restart_resume(i)

Spec == Init /\ [][Next]_vars

====
